---- MODULE Spec2Model ----
(***************************************************************************)
(* Game Boy emulator core: the CPU register file, flag helpers and stack   *)
(* routines of src/src/cpu.rs and the memory-management unit of            *)
(* src/src/mmu.rs.  The PPU, timer and DMA engine (modules ppu, timer and  *)
(* dma) are modelled from the written specification.                       *)
(***************************************************************************)
EXTENDS Integers, Sequences, FiniteSets, TLC

(***************************************************************************)
(* Fixed-width integer helpers (u8 / u16 / usize bit operations).          *)
(***************************************************************************)
RECURSIVE BitAnd(_, _)
BitAnd(x, y) ==
    IF x = 0 \/ y = 0 THEN 0
    ELSE (x % 2) * (y % 2) + 2 * BitAnd(x \div 2, y \div 2)

RECURSIVE BitOr(_, _)
BitOr(x, y) ==
    IF x = 0 THEN y
    ELSE IF y = 0 THEN x
    ELSE (IF (x % 2) + (y % 2) > 0 THEN 1 ELSE 0) + 2 * BitOr(x \div 2, y \div 2)

RECURSIVE BitXor(_, _)
BitXor(x, y) ==
    IF x = 0 THEN y
    ELSE IF y = 0 THEN x
    ELSE (((x % 2) + (y % 2)) % 2) + 2 * BitXor(x \div 2, y \div 2)

\* u8 << 1 (the bit shifted out is lost)
Shl8(x) == (x * 2) % 256

\* wrapping u8 / u16 arithmetic
WrapAdd8(x, y) == (x + y) % 256
WrapSub8(x, y) == (x - y + 256) % 256
WrapAdd16(x, y) == (x + y) % 65536
WrapSub16(x, y) == (x - y + 65536) % 65536

\* a zero-initialised byte array, kept as the map of its non-zero cells
Load(arr, i) == IF i \in DOMAIN arr THEN arr[i] ELSE 0

Store(arr, i, v) ==
    IF v = 0
    THEN [j \in DOMAIN arr \ {i} |-> arr[j]]
    ELSE [j \in DOMAIN arr \cup {i} |-> IF j = i THEN v ELSE arr[j]]

EmptyArr == [j \in {} |-> 0]

(***************************************************************************)
(* State.                                                                  *)
(***************************************************************************)
VARIABLES
    cpu,              \* struct Cpu
    mmu,              \* struct Mmu (with its ppu, dma and timer)
    ret,              \* value returned by the last operation
    op,               \* the last operation and its arguments
    steps,            \* number of operations performed
    overflow_checks,  \* build profile: arithmetic overflow panics (debug) or wraps
    panicked          \* the process aborted with a panic

vars == <<cpu, mmu, ret, op, steps, overflow_checks, panicked>>

(***************************************************************************)
(* Cpu (src/src/cpu.rs)                                                    *)
(***************************************************************************)
Cpu_new ==
    [a |-> 0, b |-> 0, c |-> 0, d |-> 0, e |-> 0, f |-> 0, h |-> 0, l |-> 0,
     sp |-> 0, pc |-> 0, halted |-> FALSE, interrupt_enable |-> TRUE,
     ime |-> FALSE, cycles |-> 0]

get_af(c) == BitOr(c.a * 256, c.f)

set_af(c, value) ==
    [c EXCEPT !.a = BitAnd(value, \hFF00) \div 256,
              !.f = BitAnd(value, \hFF)]

set_f_carry(c, value) ==
    IF value THEN [c EXCEPT !.f = BitOr(c.f, \h10)]
    ELSE [c EXCEPT !.f = BitAnd(c.f, \hEF)]

set_f_negative(c, value) ==
    IF value THEN [c EXCEPT !.f = BitOr(c.f, \h40)]
    ELSE [c EXCEPT !.f = BitAnd(c.f, \hBF)]

set_f_half_carry(c, value) ==
    IF value THEN [c EXCEPT !.f = BitOr(c.f, \h20)]
    ELSE [c EXCEPT !.f = BitAnd(c.f, \hDF)]

set_f_zero(c, value) ==
    IF value THEN [c EXCEPT !.f = BitOr(c.f, \h80)]
    ELSE [c EXCEPT !.f = BitAnd(c.f, \h7F)]

get_f_carry(c) == BitAnd(c.f, \h10) > 0
get_f_substract(c) == BitAnd(c.f, \h40) > 0
get_f_half_carry(c) == BitAnd(c.f, \h20) > 0
get_f_zero(c) == BitAnd(c.f, \h80) > 0

\* Each apply_* helper yields the new Cpu and the returned value.
apply_inc8_with_flags(c, arg) ==
    LET value == WrapAdd8(arg, 1)
        c1 == set_f_zero(c, value = 0)
        c2 == set_f_half_carry(c1, BitAnd(arg, \h0F) + 1 > \h0F)
        c3 == set_f_negative(c2, FALSE)
    IN [cpu |-> c3, value |-> value]

apply_dec8_with_flags(c, arg) ==
    LET value == WrapSub8(arg, 1)
        c1 == set_f_zero(c, value = 0)
        c2 == set_f_half_carry(c1, BitAnd(arg, \h0F) = \h0F)
        c3 == set_f_negative(c2, TRUE)
    IN [cpu |-> c3, value |-> value]

apply_rotate_left_with_flags(c, arg, apply_with_carry) ==
    LET carry == IF apply_with_carry
                 THEN (IF get_f_carry(c) THEN 1 ELSE 0)
                 ELSE (IF BitAnd(arg, \h80) # 0 THEN 1 ELSE 0)
        result == BitOr(Shl8(c.a), carry)
        c1 == set_f_half_carry(c, FALSE)
        c2 == set_f_negative(c1, FALSE)
        c3 == set_f_zero(c2, result = 0)
        c4 == set_f_carry(c3, carry > 0)
    IN [cpu |-> c4, value |-> result]

apply_rotate_right_with_flags(c, arg, apply_with_carry) ==
    LET carry == IF apply_with_carry
                 THEN (IF get_f_carry(c) THEN 1 ELSE 0)
                 ELSE BitAnd(arg, \h01)
        result == BitOr(arg \div 2, IF BitAnd(arg, \h01) > 0 THEN \h80 ELSE 0)
        c1 == set_f_half_carry(c, FALSE)
        c2 == set_f_negative(c1, FALSE)
        c3 == set_f_zero(c2, result = 0)
        c4 == set_f_carry(c3, carry > 0)
    IN [cpu |-> c4, value |-> result]

apply_add8_with_flags(c, a, b, apply_with_carry) ==
    LET carry == IF apply_with_carry THEN (IF get_f_carry(c) THEN 1 ELSE 0) ELSE 0
        result == WrapAdd8(WrapAdd8(a, b), carry)
        c1 == set_f_zero(c, result = 0)
        c2 == set_f_half_carry(c1, BitAnd(a, \hF) + BitAnd(b, \hF) + carry > \hF)
        c3 == set_f_negative(c2, FALSE)
        c4 == set_f_carry(c3, a + b + carry > \hFF)
    IN [cpu |-> c4, value |-> result]

apply_sub8_with_flags(c, a, b, apply_with_carry) ==
    LET carry == IF apply_with_carry THEN (IF get_f_carry(c) THEN 1 ELSE 0) ELSE 0
        result == WrapSub8(WrapSub8(a, b), carry)
        c1 == set_f_zero(c, result = 0)
        c2 == set_f_half_carry(c1, BitAnd(a, \h0F) < BitAnd(b, \h0F) + carry)
        c3 == set_f_negative(c2, TRUE)
        c4 == set_f_carry(c3, a < b + carry)
    IN [cpu |-> c4, value |-> result]

apply_add16_with_flags(c, a, b) ==
    LET result == WrapAdd16(a, b)
        c1 == set_f_half_carry(c, BitAnd(a, \h07FF) + BitAnd(b, \h07FF) > \h07FF)
        c2 == set_f_negative(c1, FALSE)
        c3 == set_f_carry(c2, a > \hFFFF - b)
    IN [cpu |-> c3, value |-> result]

apply_and8_with_flags(c, a, b) ==
    LET result == BitAnd(a, b)
        c1 == set_f_zero(c, result = 0)
        c2 == set_f_half_carry(c1, TRUE)
        c3 == set_f_carry(c2, FALSE)
        c4 == set_f_negative(c3, FALSE)
    IN [cpu |-> c4, value |-> result]

apply_or8_with_flags(c, a, b) ==
    LET result == BitOr(a, b)
        c1 == set_f_zero(c, result = 0)
        c2 == set_f_half_carry(c1, FALSE)
        c3 == set_f_carry(c2, FALSE)
        c4 == set_f_negative(c3, FALSE)
    IN [cpu |-> c4, value |-> result]

apply_xor8_with_flags(c, a, b) ==
    LET result == BitXor(a, b)
        c1 == set_f_zero(c, result = 0)
        c2 == set_f_half_carry(c1, FALSE)
        c3 == set_f_carry(c2, FALSE)
        c4 == set_f_negative(c3, FALSE)
    IN [cpu |-> c4, value |-> result]

(***************************************************************************)
(* Ppu, Timer and Dma: the modules ppu, timer and dma are used by mmu.rs   *)
(* (lines 2-4) but are not part of the available sources; they are         *)
(* modelled from sections 3 and 4.3-4.5 of the specification.              *)
(***************************************************************************)
InR(address, lo, hi) == lo <= address /\ address <= hi

\* VRAM, OAM and the LCD registers are one address-keyed store; LY (0xFF44)
\* is the scanline counter.  Only the VBlank interrupt (bit 0) is modelled.
Ppu_new == [mem |-> EmptyArr, dots |-> 0, ly |-> 0, interrupt |-> 0]

Ppu_read_byte(p, address) ==
    IF address = \hFF44 THEN p.ly ELSE Load(p.mem, address)

Ppu_write_byte(p, address, value) ==
    IF address = \hFF44 THEN p ELSE [p EXCEPT !.mem = Store(p.mem, address, value)]

\* 0 = HBLANK, 1 = VBLANK, 2 = OAM_SCAN, 3 = DRAW
Ppu_mode(p) ==
    IF p.ly >= 144 THEN 1
    ELSE IF p.dots < 80 THEN 2
    ELSE IF p.dots < 252 THEN 3
    ELSE 0

\* 456 dots per line, 154 lines per frame, VBlank raised on entry to line 144
Ppu_execute_ticks(p, n) ==
    LET total == p.dots + n
        lines == total \div 456
        toVBlank == (144 - p.ly + 154) % 154
        entered == lines >= 154 \/ (toVBlank # 0 /\ lines >= toVBlank)
    IN [p EXCEPT !.dots = total % 456,
                 !.ly = (p.ly + lines) % 154,
                 !.interrupt = IF entered THEN BitOr(p.interrupt, 1) ELSE p.interrupt]

Timer_new == [div |-> 0, sub |-> 0, tima |-> 0, tma |-> 0, tac |-> 0, interrupt |-> 0]

Timer_read_byte(t, address) ==
    IF address = \hFF04 THEN t.div \div 256
    ELSE IF address = \hFF05 THEN t.tima
    ELSE IF address = \hFF06 THEN t.tma
    ELSE t.tac

Timer_write_byte(t, address, value) ==
    IF address = \hFF04 THEN [t EXCEPT !.div = 0]
    ELSE IF address = \hFF05 THEN [t EXCEPT !.tima = value]
    ELSE IF address = \hFF06 THEN [t EXCEPT !.tma = value]
    ELSE [t EXCEPT !.tac = value]

\* T-cycles per TIMA tick selected by TAC bits 0-1
Timer_period(tac) ==
    LET sel == BitAnd(tac, 3)
    IN IF sel = 0 THEN 1024 ELSE IF sel = 1 THEN 16 ELSE IF sel = 2 THEN 64 ELSE 256

\* DIV counts every T-cycle; TIMA counts when TAC bit 2 is set and, on
\* overflow, reloads from TMA and raises the timer interrupt (bit 2).
Timer_execute_ticks(t, n) ==
    LET t1 == [t EXCEPT !.div = (t.div + n) % 65536]
        total == t.sub + n
        k == total \div Timer_period(t.tac)
        r == k - (256 - t.tima)
    IN IF BitAnd(t.tac, 4) = 0 THEN t1
       ELSE IF t.tima + k <= 255
       THEN [t1 EXCEPT !.sub = total % Timer_period(t.tac), !.tima = t.tima + k]
       ELSE [t1 EXCEPT !.sub = total % Timer_period(t.tac),
                       !.tima = t.tma + (r % (256 - t.tma)),
                       !.interrupt = BitOr(t.interrupt, 4)]

Dma_new ==
    [src_hi |-> 0, src_lo |-> 0, dst_hi |-> 0, dst_lo |-> 0,
     len |-> 127, active |-> FALSE, hblank |-> FALSE]

Dma_read_byte(d, address) ==
    IF address = \hFF51 THEN d.src_hi
    ELSE IF address = \hFF52 THEN d.src_lo
    ELSE IF address = \hFF53 THEN d.dst_hi
    ELSE IF address = \hFF54 THEN d.dst_lo
    ELSE BitOr(IF d.active THEN 0 ELSE \h80, d.len)

\* FF55: bit 7 selects H-blank mode, bits 0-6 the length; writing bit 7 = 0
\* during an active H-blank transfer aborts it.
Dma_write_byte(d, address, value) ==
    IF address = \hFF51 THEN [d EXCEPT !.src_hi = value]
    ELSE IF address = \hFF52 THEN [d EXCEPT !.src_lo = BitAnd(value, \hF0)]
    ELSE IF address = \hFF53 THEN [d EXCEPT !.dst_hi = BitAnd(value, \h1F)]
    ELSE IF address = \hFF54 THEN [d EXCEPT !.dst_lo = BitAnd(value, \hF0)]
    ELSE IF d.active /\ d.hblank /\ BitAnd(value, \h80) = 0
    THEN [d EXCEPT !.active = FALSE]
    ELSE [d EXCEPT !.active = TRUE,
                   !.hblank = BitAnd(value, \h80) # 0,
                   !.len = BitAnd(value, \h7F)]

(***************************************************************************)
(* Mmu (src/src/mmu.rs).  No cartridge is loaded (cartridge: None).        *)
(***************************************************************************)
Mmu_new ==
    [cartridge |-> "None",
     wram |-> EmptyArr,
     wram_bank |-> 1,
     zram |-> EmptyArr,
     speed |-> "SLOW",
     switch_speed |-> FALSE,
     interrupt_flag |-> 0,
     interrupt_enable |-> 0,
     ppu |-> Ppu_new,
     dma |-> Dma_new,
     timer |-> Timer_new]

\* index of the fixed bank: address as usize & 0x0FFF
wram_index(address) == BitAnd(address, \h0FFF)

\* faulty variant: the offset is taken from 0xD000 instead of masked
wram_bank_index_read_offset(m, address) ==
    BitOr(m.wram_bank * \h1000, address - \hD000)

\* index into the selected bank, as read_byte computes it
wram_bank_index_read(m, address) ==
    BitOr(m.wram_bank * \h1000, BitAnd(address, \h0FFF))

\* index into the selected bank, as write_byte computes it
wram_bank_index_write(m, address) ==
    BitOr(m.wram_bank * \h1000, BitAnd(address, \h0FFF))

\* faulty variant: value & 0x7 stored as it is
select_wram_bank_raw(value) == BitAnd(value, \h7)

\* the bank a write to 0xFF70 selects
select_wram_bank(value) ==
    IF BitAnd(value, \h7) = 0 THEN 1 ELSE BitAnd(value, \h7)

\* the match arms are tried in source order: the first range that holds wins
read_byte(m, address) ==
    IF InR(address, \h0000, \h7FFF) THEN 0
    ELSE IF InR(address, \h8000, \h9FFF) THEN Ppu_read_byte(m.ppu, address)
    ELSE IF InR(address, \hA000, \hBFFF) THEN 0
    ELSE IF InR(address, \hC000, \hCFFF) \/ InR(address, \hE000, \hEFFF)
    THEN Load(m.wram, wram_index(address))
    ELSE IF InR(address, \hD000, \hDFFF) \/ InR(address, \hF000, \hFDFF)
    THEN Load(m.wram, wram_bank_index_read(m, address))
    ELSE IF InR(address, \hFE00, \hFE9F) THEN Ppu_read_byte(m.ppu, address)
    ELSE IF InR(address, \hFF00, \hFF00) THEN 0
    ELSE IF InR(address, \hFF01, \hFF02) THEN 0
    ELSE IF InR(address, \hFF04, \hFF07) THEN Timer_read_byte(m.timer, address)
    ELSE IF address = \hFF0F THEN m.interrupt_flag
    ELSE IF InR(address, \hFF10, \hFF3F) THEN 0
    ELSE IF InR(address, \hFF40, \hFF4F) THEN Ppu_read_byte(m.ppu, address)
    ELSE IF address = \hFF4D
    THEN BitOr(IF m.speed = "FAST" THEN \h80 ELSE 0, IF m.switch_speed THEN 1 ELSE 0)
    ELSE IF InR(address, \hFF51, \hFF55) THEN Dma_read_byte(m.dma, address)
    ELSE IF InR(address, \hFF68, \hFF6B) THEN Ppu_read_byte(m.ppu, address)
    ELSE IF InR(address, \hFF70, \hFF70) THEN m.wram_bank % 256
    ELSE IF InR(address, \hFF80, \hFFFE) THEN Load(m.zram, BitAnd(address, \h007F))
    ELSE IF InR(address, \hFFFF, \hFFFF) THEN m.interrupt_enable
    ELSE 0

RECURSIVE write_byte(_, _, _)

\* OAM DMA (dma::execute_odma): copies 160 bytes from value << 8 to 0xFE00
\* through the bus.
RECURSIVE odma_copy(_, _, _)
odma_copy(m, value, i) ==
    IF i = 160 THEN m
    ELSE odma_copy(write_byte(m, \hFE00 + i, read_byte(m, value * 256 + i)), value, i + 1)

execute_odma(m, value) == odma_copy(m, value, 0)

write_byte(m, address, value) ==
    IF InR(address, \h0000, \h7FFF) THEN m
    ELSE IF InR(address, \h8000, \h9FFF)
    THEN [m EXCEPT !.ppu = Ppu_write_byte(m.ppu, address, value)]
    ELSE IF InR(address, \hA000, \hBFFF) THEN m
    ELSE IF InR(address, \hC000, \hCFFF) \/ InR(address, \hE000, \hEFFF)
    THEN [m EXCEPT !.wram = Store(m.wram, wram_index(address), value)]
    ELSE IF InR(address, \hD000, \hDFFF) \/ InR(address, \hF000, \hFDFF)
    THEN [m EXCEPT !.wram = Store(m.wram, wram_bank_index_write(m, address), value)]
    ELSE IF InR(address, \hFE00, \hFE9F)
    THEN [m EXCEPT !.ppu = Ppu_write_byte(m.ppu, address, value)]
    ELSE IF address = \hFF00 THEN m
    ELSE IF InR(address, \hFF01, \hFF02) THEN m
    ELSE IF InR(address, \hFF04, \hFF07)
    THEN [m EXCEPT !.timer = Timer_write_byte(m.timer, address, value)]
    ELSE IF InR(address, \hFF10, \hFF3F) THEN m
    ELSE IF InR(address, \hFF40, \hFF4F)
    THEN [m EXCEPT !.ppu = Ppu_write_byte(m.ppu, address, value)]
    ELSE IF address = \hFF46 THEN execute_odma(m, value)
    ELSE IF address = \hFF4D
    THEN (IF BitAnd(value, \h1) = \h1 THEN [m EXCEPT !.switch_speed = TRUE] ELSE m)
    ELSE IF InR(address, \hFF51, \hFF55)
    THEN [m EXCEPT !.dma = Dma_write_byte(m.dma, address, value)]
    ELSE IF InR(address, \hFF68, \hFF6B)
    THEN [m EXCEPT !.ppu = Ppu_write_byte(m.ppu, address, value)]
    ELSE IF address = \hFF0F THEN [m EXCEPT !.interrupt_flag = value]
    ELSE IF InR(address, \hFF70, \hFF70)
    THEN [m EXCEPT !.wram_bank = select_wram_bank(value)]
    ELSE IF InR(address, \hFF80, \hFFFE)
    THEN [m EXCEPT !.zram = Store(m.zram, BitAnd(address, \h007F), value)]
    ELSE IF InR(address, \hFFFF, \hFFFF) THEN [m EXCEPT !.interrupt_enable = value]
    ELSE m

\* address + 1 in u16: wraps here; the actions decide whether it panics
read_word(m, address) ==
    LET low == read_byte(m, address)
        high == read_byte(m, WrapAdd16(address, 1))
    IN BitOr(high * 256, low)

\* faulty variant: high byte first
write_word_big_endian(m, address, value) ==
    LET low == BitAnd(value, \hFF)
        high == value \div 256
    IN write_byte(write_byte(m, address, high), WrapAdd16(address, 1), low)

write_word(m, address, value) ==
    LET low == BitAnd(value, \hFF)
        high == value \div 256
    IN write_byte(write_byte(m, address, low), WrapAdd16(address, 1), high)

toggle_speed(m) ==
    LET m1 == IF m.switch_speed
              THEN [m EXCEPT !.speed = IF m.speed = "FAST" THEN "SLOW" ELSE "FAST"]
              ELSE m
    IN [m1 EXCEPT !.switch_speed = FALSE]

\* HDMA/GDMA step (Dma::execute_tick): general mode moves (len+1)*16 bytes at
\* once, H-blank mode 16 bytes while the PPU is in HBLANK; the result is the
\* number of T-cycles taken from the bus (8 per 16-byte block).
RECURSIVE hdma_copy(_, _, _, _)
hdma_copy(m, src, dst, n) ==
    IF n = 0 THEN m
    ELSE hdma_copy(write_byte(m, \h8000 + (dst % \h2000), read_byte(m, src % 65536)),
                   src + 1, dst + 1, n - 1)

Dma_execute_tick(m) ==
    LET d == m.dma
        src == d.src_hi * 256 + d.src_lo
        dst == d.dst_hi * 256 + d.dst_lo
        blocks == IF ~d.active THEN 0
                  ELSE IF ~d.hblank THEN d.len + 1
                  ELSE IF Ppu_mode(m.ppu) = 0 THEN 1
                  ELSE 0
        left == d.len + 1 - blocks
        nsrc == (src + 16 * blocks) % 65536
        ndst == (dst + 16 * blocks) % \h2000
        d1 == [d EXCEPT !.src_hi = nsrc \div 256, !.src_lo = nsrc % 256,
                        !.dst_hi = ndst \div 256, !.dst_lo = ndst % 256,
                        !.active = left > 0,
                        !.len = IF left > 0 THEN left - 1 ELSE \h7F]
        m1 == hdma_copy(m, src, dst, 16 * blocks)
    IN IF blocks = 0 THEN [mmu |-> m, ticks |-> 0]
       ELSE [mmu |-> [m1 EXCEPT !.dma = d1], ticks |-> 8 * blocks]

\* faulty variant: the timer's mask is assigned to IF instead of OR-ed into it
execute_ticks_assign(m, ticks) ==
    LET cpu_divider == IF m.speed = "SLOW" THEN 1 ELSE 2
        r == Dma_execute_tick(m)
        vram_ticks == r.ticks
        gpu_ticks == (ticks \div cpu_divider) + vram_ticks
        timer_ticks == ticks + vram_ticks * cpu_divider
        m1 == r.mmu
        m2 == [m1 EXCEPT !.timer = Timer_execute_ticks(m1.timer, timer_ticks)]
        m3 == [m2 EXCEPT !.ppu = Ppu_execute_ticks(m2.ppu, gpu_ticks)]
        m4 == [m3 EXCEPT !.interrupt_flag = m3.timer.interrupt]
        m5 == [m4 EXCEPT !.timer.interrupt = 0]
        m6 == [m5 EXCEPT !.interrupt_flag = BitOr(m5.interrupt_flag, m5.ppu.interrupt)]
        m7 == [m6 EXCEPT !.ppu.interrupt = 0]
    IN [mmu |-> m7,
        calls |-> << <<"dma", vram_ticks>>, <<"timer", timer_ticks>>, <<"ppu", gpu_ticks>> >>]

\* Mmu::execute_ticks: the new Mmu and the subsystem calls made, in order
execute_ticks(m, ticks) ==
    LET cpu_divider == IF m.speed = "SLOW" THEN 1 ELSE 2
        r == Dma_execute_tick(m)
        vram_ticks == r.ticks
        gpu_ticks == (ticks \div cpu_divider) + vram_ticks
        timer_ticks == ticks + vram_ticks * cpu_divider
        m1 == r.mmu
        m2 == [m1 EXCEPT !.timer = Timer_execute_ticks(m1.timer, timer_ticks)]
        m3 == [m2 EXCEPT !.ppu = Ppu_execute_ticks(m2.ppu, gpu_ticks)]
        m4 == [m3 EXCEPT !.interrupt_flag = BitOr(m3.interrupt_flag, m3.timer.interrupt)]
        m5 == [m4 EXCEPT !.timer.interrupt = 0]
        m6 == [m5 EXCEPT !.interrupt_flag = BitOr(m5.interrupt_flag, m5.ppu.interrupt)]
        m7 == [m6 EXCEPT !.ppu.interrupt = 0]
    IN [mmu |-> m7,
        calls |-> << <<"dma", vram_ticks>>, <<"timer", timer_ticks>>, <<"ppu", gpu_ticks>> >>]

\* Cpu stack routines: the new Cpu and Mmu and the value returned.  sp - n is
\* u16 arithmetic; the actions decide whether an overflow panics.
push_byte(c, m, value) ==
    LET c1 == [c EXCEPT !.sp = WrapSub16(c.sp, 1)]
    IN [cpu |-> c1, mmu |-> write_byte(m, c1.sp, value), value |-> 0]

push_word(c, m, value) ==
    LET c1 == [c EXCEPT !.sp = WrapSub16(c.sp, 2)]
    IN [cpu |-> c1, mmu |-> write_word(m, c1.sp, value), value |-> 0]

pop_byte(c, m) ==
    LET value == read_byte(m, c.sp)
    IN [cpu |-> [c EXCEPT !.sp = WrapSub16(c.sp, 1)], mmu |-> m, value |-> value]

pop_word(c, m) ==
    LET value == read_word(m, c.sp)
    IN [cpu |-> [c EXCEPT !.sp = WrapSub16(c.sp, 2)], mmu |-> m, value |-> value]

(***************************************************************************)
(* Inputs and bounds.                                                      *)
(***************************************************************************)
\* operations per run of the MMU, of the stack and of the cycle propagation
MaxOps == 2
MaxStackOps == 3
MaxTickOps == 4

\* values written with set_af (16 bit), operands of the flag helpers
AfVals == {\h0000, \h01B0, \h80FF, \hA50F, \hFFF0}
Args8 == {\h00, \h01, \h0F, \h10, \h80, \hFF}
Pairs8 == {<<\h00, \h00>>, <<\h00, \h01>>, <<\h0F, \h01>>, <<\hFF, \h01>>, <<\hF0, \h3C>>}
Pairs16 == {<<\h0000, \h0000>>, <<\h07FF, \h0001>>, <<\h8000, \h8000>>, <<\hFFFF, \h0001>>}

(***************************************************************************)
(* The register file and the flag helpers: from Cpu::new, any sequence of  *)
(* set_af, set_f_* and apply_*_with_flags calls.  None of them can         *)
(* overflow, so the build profile plays no part.                           *)
(***************************************************************************)
InitCpu ==
    /\ cpu = Cpu_new
    /\ mmu = Mmu_new
    /\ ret = 0
    /\ op = [name |-> "new"]
    /\ steps = 0
    /\ overflow_checks = FALSE
    /\ panicked = FALSE

SetAf ==
    \E value \in AfVals :
        /\ cpu' = set_af(cpu, value)
        /\ op' = [name |-> "set_af"]
        /\ UNCHANGED <<mmu, ret, steps, overflow_checks, panicked>>

SetFCarry ==
    \E value \in BOOLEAN :
        /\ cpu' = set_f_carry(cpu, value)
        /\ op' = [name |-> "set_f_carry"]
        /\ UNCHANGED <<mmu, ret, steps, overflow_checks, panicked>>

SetFNegative ==
    \E value \in BOOLEAN :
        /\ cpu' = set_f_negative(cpu, value)
        /\ op' = [name |-> "set_f_negative"]
        /\ UNCHANGED <<mmu, ret, steps, overflow_checks, panicked>>

SetFHalfCarry ==
    \E value \in BOOLEAN :
        /\ cpu' = set_f_half_carry(cpu, value)
        /\ op' = [name |-> "set_f_half_carry"]
        /\ UNCHANGED <<mmu, ret, steps, overflow_checks, panicked>>

SetFZero ==
    \E value \in BOOLEAN :
        /\ cpu' = set_f_zero(cpu, value)
        /\ op' = [name |-> "set_f_zero"]
        /\ UNCHANGED <<mmu, ret, steps, overflow_checks, panicked>>

ApplyInc8 ==
    \E arg \in Args8 :
        LET r == apply_inc8_with_flags(cpu, arg)
        IN /\ cpu' = r.cpu
           /\ ret' = r.value
           /\ op' = [name |-> "apply_inc8_with_flags", arg |-> arg]
           /\ UNCHANGED <<mmu, steps, overflow_checks, panicked>>

ApplyDec8 ==
    \E arg \in Args8 :
        LET r == apply_dec8_with_flags(cpu, arg)
        IN /\ cpu' = r.cpu
           /\ ret' = r.value
           /\ op' = [name |-> "apply_dec8_with_flags", arg |-> arg]
           /\ UNCHANGED <<mmu, steps, overflow_checks, panicked>>

\* The operand is a fresh value or the value the previous rotate returned (the
\* caller rotating a register or (HL) in place); x0 and n record the operand
\* a run of such in-place rotates started from and the length of the run.
ApplyRotateLeft ==
    \E arg \in Args8 \cup ({ret} \cap (0..255)), apply_with_carry \in BOOLEAN :
        LET r == apply_rotate_left_with_flags(cpu, arg, apply_with_carry)
            again == /\ op.name = "apply_rotate_left_with_flags"
                     /\ ~op.apply_with_carry
                     /\ ~apply_with_carry
                     /\ arg = ret
                     /\ op.n < 8
        IN /\ cpu' = r.cpu
           /\ ret' = r.value
           /\ op' = [name |-> "apply_rotate_left_with_flags", arg |-> arg,
                     apply_with_carry |-> apply_with_carry,
                     x0 |-> IF again THEN op.x0 ELSE arg,
                     n |-> IF again THEN op.n + 1 ELSE 1]
           /\ UNCHANGED <<mmu, steps, overflow_checks, panicked>>

ApplyRotateRight ==
    \E arg \in Args8, apply_with_carry \in BOOLEAN :
        LET r == apply_rotate_right_with_flags(cpu, arg, apply_with_carry)
        IN /\ cpu' = r.cpu
           /\ ret' = r.value
           /\ op' = [name |-> "apply_rotate_right_with_flags"]
           /\ UNCHANGED <<mmu, steps, overflow_checks, panicked>>

ApplyAdd8 ==
    \E ab \in Pairs8, apply_with_carry \in BOOLEAN :
        LET r == apply_add8_with_flags(cpu, ab[1], ab[2], apply_with_carry)
        IN /\ cpu' = r.cpu
           /\ ret' = r.value
           /\ op' = [name |-> "apply_add8_with_flags"]
           /\ UNCHANGED <<mmu, steps, overflow_checks, panicked>>

ApplySub8 ==
    \E ab \in Pairs8, apply_with_carry \in BOOLEAN :
        LET r == apply_sub8_with_flags(cpu, ab[1], ab[2], apply_with_carry)
        IN /\ cpu' = r.cpu
           /\ ret' = r.value
           /\ op' = [name |-> "apply_sub8_with_flags"]
           /\ UNCHANGED <<mmu, steps, overflow_checks, panicked>>

ApplyAdd16 ==
    \E ab \in Pairs16 :
        LET r == apply_add16_with_flags(cpu, ab[1], ab[2])
        IN /\ cpu' = r.cpu
           /\ ret' = r.value
           /\ op' = [name |-> "apply_add16_with_flags"]
           /\ UNCHANGED <<mmu, steps, overflow_checks, panicked>>

ApplyAnd8 ==
    \E ab \in Pairs8 :
        LET r == apply_and8_with_flags(cpu, ab[1], ab[2])
        IN /\ cpu' = r.cpu
           /\ ret' = r.value
           /\ op' = [name |-> "apply_and8_with_flags"]
           /\ UNCHANGED <<mmu, steps, overflow_checks, panicked>>

ApplyOr8 ==
    \E ab \in Pairs8 :
        LET r == apply_or8_with_flags(cpu, ab[1], ab[2])
        IN /\ cpu' = r.cpu
           /\ ret' = r.value
           /\ op' = [name |-> "apply_or8_with_flags"]
           /\ UNCHANGED <<mmu, steps, overflow_checks, panicked>>

ApplyXor8 ==
    \E ab \in Pairs8 :
        LET r == apply_xor8_with_flags(cpu, ab[1], ab[2])
        IN /\ cpu' = r.cpu
           /\ ret' = r.value
           /\ op' = [name |-> "apply_xor8_with_flags"]
           /\ UNCHANGED <<mmu, steps, overflow_checks, panicked>>

NextCpu ==
    \/ SetAf
    \/ SetFCarry
    \/ SetFNegative
    \/ SetFHalfCarry
    \/ SetFZero
    \/ ApplyInc8
    \/ ApplyDec8
    \/ ApplyRotateLeft
    \/ ApplyRotateRight
    \/ ApplyAdd8
    \/ ApplySub8
    \/ ApplyAdd16
    \/ ApplyAnd8
    \/ ApplyOr8
    \/ ApplyXor8

SpecCpu == InitCpu /\ [][NextCpu]_vars

\* C1: in every reachable CPU state the low nibble of F is zero
\* (F & 0x0F == 0), set_af included.
C1_FlagLowNibbleZero == BitAnd(cpu.f, \h0F) = 0

\* C7: apply_dec8_with_flags(a) returns (a - 1) mod 256 with Z = (result = 0),
\* N = 1, H = ((a & 0xF) = 0) and C unchanged.
C7_Dec8Flags ==
    [][op'.name = "apply_dec8_with_flags" =>
        /\ ret' = (op'.arg - 1 + 256) % 256
        /\ get_f_zero(cpu') = (ret' = 0)
        /\ get_f_substract(cpu')
        /\ get_f_half_carry(cpu') = (BitAnd(op'.arg, \h0F) = 0)
        /\ get_f_carry(cpu') = get_f_carry(cpu)]_vars

\* C8: one rotate-left-circular of an operand x returns
\* ((x << 1) | (x >> 7)) mod 256 whatever A holds, and eight in a row
\* return the operand the run started from.
C8_RlcEightTimesIdentity ==
    (op.name = "apply_rotate_left_with_flags" /\ ~op.apply_with_carry) =>
        /\ ret = BitOr((op.arg * 2) % 256, op.arg \div 128)
        /\ (op.n = 8 => ret = op.x0)

(***************************************************************************)
(* The stack routines: the stack pointer is a public field a program loads *)
(* (LD SP,nn); a run starts from Cpu::new with SP at one of SpSet and      *)
(* performs up to MaxStackOps pushes and pops.  sp -= n and address + 1    *)
(* overflow at the ends of the address space: the debug profile panics,    *)
(* the release profile wraps.                                              *)
(***************************************************************************)
SpSet == {\h0000, \hC001, \hC002, \hD000, \hD001, \hE000, \hFF81, \hFFFE, \hFFFF}
PushBytes == {\h00, \h5A, \hFF}
PushWords == {\h0000, \h1234, \hFF80}

InRam(address) == InR(address, \hC000, \hDFFF) \/ InR(address, \hFF80, \hFFFE)

InitStack ==
    /\ \E s \in SpSet : cpu = [Cpu_new EXCEPT !.sp = s]
    /\ mmu = Mmu_new
    /\ ret = 0
    /\ op = [name |-> "new", value |-> 0, sp0 |-> 0]
    /\ steps = 0
    /\ overflow_checks \in BOOLEAN
    /\ panicked = FALSE

PushByte ==
    /\ ~panicked
    /\ steps < MaxStackOps
    /\ \E value \in PushBytes :
        LET r == push_byte(cpu, mmu, value)
            o == [name |-> "push_byte", value |-> value, sp0 |-> cpu.sp]
        IN IF overflow_checks /\ cpu.sp < 1
           THEN /\ panicked' = TRUE
                /\ op' = o
                /\ UNCHANGED <<cpu, mmu, ret>>
           ELSE /\ cpu' = r.cpu
                /\ mmu' = r.mmu
                /\ op' = o
                /\ UNCHANGED <<ret, panicked>>
    /\ steps' = steps + 1
    /\ UNCHANGED overflow_checks

PushWord ==
    /\ ~panicked
    /\ steps < MaxStackOps
    /\ \E value \in PushWords :
        LET r == push_word(cpu, mmu, value)
            o == [name |-> "push_word", value |-> value, sp0 |-> cpu.sp]
        IN IF overflow_checks /\ cpu.sp < 2
           THEN /\ panicked' = TRUE
                /\ op' = o
                /\ UNCHANGED <<cpu, mmu, ret>>
           ELSE /\ cpu' = r.cpu
                /\ mmu' = r.mmu
                /\ op' = o
                /\ UNCHANGED <<ret, panicked>>
    /\ steps' = steps + 1
    /\ UNCHANGED overflow_checks

PopByte ==
    /\ ~panicked
    /\ steps < MaxStackOps
    /\ LET r == pop_byte(cpu, mmu)
           o == [name |-> "pop_byte", value |-> r.value, sp0 |-> cpu.sp,
                 prev |-> op.name, prev_value |-> op.value, prev_sp0 |-> op.sp0]
       IN IF overflow_checks /\ cpu.sp < 1
          THEN /\ panicked' = TRUE
               /\ op' = o
               /\ UNCHANGED <<cpu, ret>>
          ELSE /\ cpu' = r.cpu
               /\ ret' = r.value
               /\ op' = o
               /\ UNCHANGED panicked
    /\ steps' = steps + 1
    /\ UNCHANGED <<mmu, overflow_checks>>

PopWord ==
    /\ ~panicked
    /\ steps < MaxStackOps
    /\ LET r == pop_word(cpu, mmu)
           o == [name |-> "pop_word", value |-> r.value, sp0 |-> cpu.sp,
                 prev |-> op.name, prev_value |-> op.value, prev_sp0 |-> op.sp0]
       IN IF overflow_checks /\ (cpu.sp = \hFFFF \/ cpu.sp < 2)
          THEN /\ panicked' = TRUE
               /\ op' = o
               /\ UNCHANGED <<cpu, ret>>
          ELSE /\ cpu' = r.cpu
               /\ ret' = r.value
               /\ op' = o
               /\ UNCHANGED panicked
    /\ steps' = steps + 1
    /\ UNCHANGED <<mmu, overflow_checks>>

NextStack ==
    \/ PushByte
    \/ PushWord
    \/ PopByte
    \/ PopWord

SpecStack == InitStack /\ [][NextStack]_vars

\* C2: a pop that directly follows a push, with the pushed cells in WRAM or
\* HRAM, returns the pushed value and leaves SP as it was before the push
\* (words with a step of 2, bytes with a step of 1).
C2_PushPopRoundTrip ==
    /\ (/\ op.name = "pop_word" /\ op.prev = "push_word" /\ ~panicked
        /\ InRam(op.prev_sp0 - 2) /\ InRam(op.prev_sp0 - 1))
       => (ret = op.prev_value /\ cpu.sp = op.prev_sp0 /\ op.sp0 = op.prev_sp0 - 2)
    /\ (/\ op.name = "pop_byte" /\ op.prev = "push_byte" /\ ~panicked
        /\ InRam(op.prev_sp0 - 1))
       => (ret = op.prev_value /\ cpu.sp = op.prev_sp0 /\ op.sp0 = op.prev_sp0 - 1)

(***************************************************************************)
(* The bus: from Mmu::new, up to MaxOps calls of write_byte, write_word    *)
(* and toggle_speed.  The word addresses lie below 0xFFFF, so address + 1  *)
(* does not overflow and the build profile plays no part.                  *)
(***************************************************************************)
\* one address or more in every arm of the dispatch, and the ends of the
\* RAM regions
Addrs ==
    {\h0000, \h8000, \hA000, \hC000, \hCFFF, \hD000, \hDFFF, \hE000, \hF000,
     \hFDFF, \hFE00, \hFEA0, \hFF00, \hFF01, \hFF10, \hFF46, \hFF4D, \hFF68,
     \hFF70, \hFF80, \hFFFE, \hFFFF}
Vals == {\h00, \h03, \hC0, \hFF}
WordAddrs == {\hC000, \hCFFF, \hDFFF, \hEFFF, \hFF80, \hFFFE}
WordVals == {\h1234, \hFF00, \h00AB}

InitMmu ==
    /\ cpu = Cpu_new
    /\ mmu = Mmu_new
    /\ ret = 0
    /\ op = [name |-> "new"]
    /\ steps = 0
    /\ overflow_checks = FALSE
    /\ panicked = FALSE

WriteByte ==
    /\ ~panicked
    /\ steps < MaxOps
    /\ \E address \in Addrs, value \in Vals :
        /\ mmu' = write_byte(mmu, address, value)
        /\ op' = [name |-> "write_byte", address |-> address, value |-> value]
    /\ steps' = steps + 1
    /\ UNCHANGED <<cpu, ret, overflow_checks, panicked>>

WriteWord ==
    /\ ~panicked
    /\ steps < MaxOps
    /\ \E address \in WordAddrs, value \in WordVals :
        /\ mmu' = write_word(mmu, address, value)
        /\ op' = [name |-> "write_word", address |-> address, value |-> value]
    /\ steps' = steps + 1
    /\ UNCHANGED <<cpu, ret, overflow_checks, panicked>>

ToggleSpeed ==
    /\ ~panicked
    /\ steps < MaxOps
    /\ mmu' = toggle_speed(mmu)
    /\ op' = [name |-> "toggle_speed", switch_speed |-> mmu.switch_speed,
              speed |-> mmu.speed]
    /\ steps' = steps + 1
    /\ UNCHANGED <<cpu, ret, overflow_checks, panicked>>

NextMmu ==
    \/ WriteByte
    \/ WriteWord
    \/ ToggleSpeed

SpecMmu == InitMmu /\ [][NextMmu]_vars

\* C3: writing 0xC0 to 0xFF46 starts the OAM DMA: afterwards OAM
\* 0xFE00-0xFE9F equals the 160 bytes at 0xC000-0xC09F.
C3_OamDmaCopies ==
    (op.name = "write_byte" /\ op.address = \hFF46 /\ op.value = \hC0) =>
        \A i \in 0..159 : read_byte(mmu, \hFE00 + i) = read_byte(mmu, \hC000 + i)

\* C4: after write_word(a, v) with a in WRAM or HRAM, read_word(a) = v,
\* read_byte(a) = v & 0xFF and read_byte(a + 1) = v >> 8, whatever WRAM bank
\* is selected and also where a + 1 lies in another region.
C4_WordRoundTrip ==
    (op.name = "write_word" /\ InRam(op.address) /\ ~panicked) =>
        /\ read_word(mmu, op.address) = op.value
        /\ read_byte(mmu, op.address) = op.value % 256
        /\ read_byte(mmu, op.address + 1) = op.value \div 256

C4_Witness ==
    /\ op.name = "write_word"
    /\ op.address \in {\hCFFF, \hDFFF, \hFFFE}
    /\ op.value = \h1234
    /\ mmu.wram_bank = 3
    /\ read_word(mmu, op.address) = \h1234

\* C5: every echo address reads what the work-RAM address 0x2000 below it
\* reads.
\* The echo addresses compared in a state: the ends of the two echo ranges
\* and every echo address whose offset in a 4 KiB bank is the offset of a
\* non-zero cell of wram (in any bank).  At every other echo address all the
\* cells either read can select hold 0.
EchoProbes ==
    {\hE000, \hEFFF, \hF000, \hFDFF}
        \cup {\hE000 + (i % \h1000) : i \in DOMAIN mmu.wram}
        \cup {a \in {\hF000 + (i % \h1000) : i \in DOMAIN mmu.wram} : a <= \hFDFF}

C5_EchoMirrorsWram ==
    \A a \in EchoProbes : read_byte(mmu, a) = read_byte(mmu, a - \h2000)

C5_Witness ==
    /\ op.name = "write_byte"
    /\ op.address = \hF000
    /\ op.value = \hFF
    /\ mmu.wram_bank = 7
    /\ read_byte(mmu, \hD000) = \hFF

\* C6: the selected WRAM bank is always in 1..7; a write to 0xFF70 whose low
\* three bits are 0 selects bank 1, and 0xFF70 then reads 1.
C6_WramBankNeverZero ==
    /\ mmu.wram_bank \in 1..7
    /\ (op.name = "write_byte" /\ op.address = \hFF70 /\ op.value % 8 = 0) =>
           (mmu.wram_bank = 1 /\ read_byte(mmu, \hFF70) = 1)

C6_Witness ==
    /\ op.name = "write_byte"
    /\ op.address = \hFF70
    /\ op.value = \hC0
    /\ mmu.wram_bank = 1

\* C10: a write to 0xFF4D with bit 0 set sets the speed-switch latch, and
\* 0xFF4D then reads bit 0 = 1 and bit 7 = 1 exactly in double speed;
\* toggle_speed flips the speed when the latch was set, leaves it when the
\* latch was clear, and clears the latch.
C10_Key1SpeedSwitch ==
    /\ (op.name = "write_byte" /\ op.address = \hFF4D /\ op.value % 2 = 1) =>
           /\ mmu.switch_speed
           /\ read_byte(mmu, \hFF4D) % 2 = 1
           /\ (read_byte(mmu, \hFF4D) >= \h80) = (mmu.speed = "FAST")
    /\ op.name = "toggle_speed" =>
           /\ ~mmu.switch_speed
           /\ (mmu.speed # op.speed) = op.switch_speed

(***************************************************************************)
(* Cycle propagation: up to MaxTickOps register writes and execute_ticks   *)
(* calls.  speed is a public field of Mmu, so a run starts in either       *)
(* speed.                                                                  *)
(***************************************************************************)
\* writes <<address, value>>: a WRAM cell, TIMA, TMA, TAC, IF, the HDMA source
\* and the HDMA start register (general mode with 1 or 2 blocks, H-blank
\* mode with 2 blocks)
RegWrites ==
    {<<\hC000, \h5A>>,
     <<\hFF05, \hFF>>, <<\hFF06, \hF0>>,
     <<\hFF07, \h00>>, <<\hFF07, \h04>>, <<\hFF07, \h05>>,
     <<\hFF0F, \h12>>, <<\hFF0F, \h1F>>,
     <<\hFF51, \hC0>>,
     <<\hFF55, \h00>>, <<\hFF55, \h01>>, <<\hFF55, \h81>>}
Ticks == {16, 256, 65664, 131328}

InitTicks ==
    /\ cpu = Cpu_new
    /\ \E s \in {"SLOW", "FAST"} : mmu = [Mmu_new EXCEPT !.speed = s]
    /\ ret = 0
    /\ op = [name |-> "new"]
    /\ steps = 0
    /\ overflow_checks = FALSE
    /\ panicked = FALSE

WriteReg ==
    /\ ~panicked
    /\ steps < MaxTickOps
    /\ \E w \in RegWrites :
        /\ mmu' = write_byte(mmu, w[1], w[2])
        /\ op' = [name |-> "write_byte", address |-> w[1], value |-> w[2]]
    /\ steps' = steps + 1
    /\ UNCHANGED <<cpu, ret, overflow_checks, panicked>>

\* op.before is the Mmu the call started from
ExecuteTicks ==
    /\ ~panicked
    /\ steps < MaxTickOps
    /\ \E ticks \in Ticks :
        LET r == execute_ticks(mmu, ticks)
        IN /\ mmu' = r.mmu
           /\ op' = [name |-> "execute_ticks", ticks |-> ticks, calls |-> r.calls,
                     before |-> mmu]
    /\ steps' = steps + 1
    /\ UNCHANGED <<cpu, ret, overflow_checks, panicked>>

NextTicks ==
    \/ WriteReg
    \/ ExecuteTicks

SpecTicks == InitTicks /\ [][NextTicks]_vars

\* what one execute_ticks(m) must do, from the Mmu it started from: the DMA
\* step and its stolen cycles v, the timer stepped by m + v * speed_factor,
\* the PPU stepped by m / speed_factor + v
SpeedFactor(m) == IF m.speed = "FAST" THEN 2 ELSE 1
TimerTicks(m, ticks, v) == ticks + v * SpeedFactor(m)
PpuTicks(m, ticks, v) == (ticks \div SpeedFactor(m)) + v

\* C9: after execute_ticks(m) the timer's and the PPU's interrupt masks are 0,
\* IF is its value before the harvest OR-ed with the two masks raised, no bit
\* of IF set before the call is cleared, and the subsystems were stepped in
\* the order DMA, timer (m + v * speed_factor), PPU (m / speed_factor + v).
C9_HarvestInterrupts ==
    op.name = "execute_ticks" =>
        \A d \in {Dma_execute_tick(op.before)} :
        \A t \in {Timer_execute_ticks(d.mmu.timer,
                                      TimerTicks(op.before, op.ticks, d.ticks))} :
        \A p \in {Ppu_execute_ticks(d.mmu.ppu,
                                    PpuTicks(op.before, op.ticks, d.ticks))} :
            /\ mmu.timer.interrupt = 0
            /\ mmu.ppu.interrupt = 0
            /\ mmu.interrupt_flag =
                   BitOr(BitOr(d.mmu.interrupt_flag, t.interrupt), p.interrupt)
            /\ BitAnd(mmu.interrupt_flag, op.before.interrupt_flag)
                   = op.before.interrupt_flag
            /\ mmu.timer = [t EXCEPT !.interrupt = 0]
            /\ mmu.ppu = [p EXCEPT !.interrupt = 0]
            /\ op.calls = << <<"dma", d.ticks>>,
                             <<"timer", TimerTicks(op.before, op.ticks, d.ticks)>>,
                             <<"ppu", PpuTicks(op.before, op.ticks, d.ticks)>> >>

\* double speed, cycles stolen by the DMA, both interrupts raised in the step
\* and other bits of IF pending before it
C9_Witness ==
    /\ op.name = "execute_ticks"
    /\ op.before.speed = "FAST"
    /\ op.before.interrupt_flag = \h12
    /\ op.before.dma.active
    /\ op.before.timer.interrupt = 0
    /\ op.before.ppu.interrupt = 0
    /\ op.calls[1][2] > 0
    /\ op.calls[2][2] = op.ticks + 2 * op.calls[1][2]
    /\ mmu.interrupt_flag = \h17

====
